---- MODULE Spec2Model ----
(***************************************************************************)
(* Multimodal RAG system: the ingestion pipeline (app/ingestion.py), the   *)
(* cross-modal retrieval merge (app/retrieval.py), the vector store        *)
(* wrappers (app/storage.py) and the lazily-loaded embedding models        *)
(* (app/embeddings.py).                                                    *)
(*                                                                         *)
(* Text is a sequence of one-character strings.  Identifiers and paths are *)
(* built as real strings with \o and ToString, as the f-strings build them.*)
(***************************************************************************)
EXTENDS Integers, Sequences, FiniteSets, TLC

VARIABLES
    \* ---- chunker (pure function of a text) ----
    ctext,      \* the raw text handed to the chunker
    cmode,      \* "new" | "file" (chunked as _ingest_text does) | "page" (as _ingest_pdf does)
    cout,       \* [status, chunks] produced
    \* ---- _normalize_scores (pure function of a score list) ----
    scores,     \* the raw similarities handed to _normalize_scores
    normalized, \* its result
    npc,        \* "new" | "done"
    \* ---- multimodal_query ----
    qpc,        \* "idle" | "done"
    top_k,      \* the request's top_k
    textDist,   \* distances query_text returned (ascending)
    imageDist,  \* distances query_images returned (ascending)
    merged,     \* final_results
    \* ---- ingestion (process_upload) ----
    upc,        \* request -> "new" | "open" (file opened, awaiting file.read()) | "done"
    ureq,       \* request -> [content_type, filename, content] as received
    ures,       \* request -> the response (and the routine dispatched)
    disk,       \* path -> bytes: data/uploads and data/extracted
    textColl,   \* the text collection: id -> record
    imageColl,  \* the image collection: id -> record
    uuids,      \* number of uuid4() values drawn so far
    now,        \* the clock read by datetime.utcnow()
    \* ---- lazily constructed handles ----
    held,       \* "text" / "clip" -> the instance in EmbeddingModels._text_model / _clip_model (0: None)
    built,      \* handle -> how many instances have been constructed
    hpc,        \* caller -> "idle" | "load_text" | "load_clip" (saw None, constructing)
    got,        \* caller -> handle -> the instance its last access returned (0: none yet)
    calls,      \* caller -> accesses begun
    \* ---- _format_source_attribution (pure function of a metadata dict) ----
    ameta,      \* the metadata dict handed to _format_source_attribution
    asource,    \* the string it returned
    apc         \* "new" | "done"

chunkVars == <<ctext, cmode, cout>>
normVars == <<scores, normalized, npc>>
queryVars == <<qpc, top_k, textDist, imageDist, merged>>
ingestVars == <<upc, ureq, ures, disk, textColl, imageColl, uuids, now>>
handleVars == <<held, built, hpc, got, calls>>
attrVars == <<ameta, asource, apc>>
vars == <<chunkVars, normVars, queryVars, ingestVars, handleVars, attrVars>>

(***************************************************************************)
(* Each specification below exercises one part of the program; the state   *)
(* of the other parts rests at these values.                               *)
(***************************************************************************)
ChunkerAtRest ==
    /\ ctext = <<>>
    /\ cmode = "off"
    /\ cout = [status |-> 0, chunks |-> <<>>]

NormalizeAtRest ==
    /\ scores = <<>>
    /\ normalized = <<>>
    /\ npc = "off"

QueryAtRest ==
    /\ qpc = "off"
    /\ top_k = 0
    /\ textDist = <<>>
    /\ imageDist = <<>>
    /\ merged = <<>>

IngestAtRest ==
    /\ upc = <<>>
    /\ ureq = <<>>
    /\ ures = <<>>
    /\ disk = <<>>
    /\ textColl = <<>>
    /\ imageColl = <<>>
    /\ uuids = 0
    /\ now = 0

HandlesAtRest ==
    /\ held = <<>>
    /\ built = <<>>
    /\ hpc = <<>>
    /\ got = <<>>
    /\ calls = <<>>

AttributionAtRest ==
    /\ ameta = <<>>
    /\ asource = ""
    /\ apc = "off"

(***************************************************************************)
(* Bounds                                                                  *)
(***************************************************************************)
MaxTextLen == 5
MaxScores == 3      \* longest list handed to _normalize_scores
MaxTopK == 2        \* largest top_k of a query
MaxUploads == 2     \* upload requests received
MaxCallers == 2     \* threads calling into embeddings.py and storage.py
MaxCalls == 2       \* accesses each of them makes

(***************************************************************************)
(* Python str helpers                                                      *)
(***************************************************************************)
NL == "\n"
Whitespace == {" ", NL}
Alphabet == {"A", "B", " ", NL}

RECURSIVE LStrip(_)
LStrip(s) ==
    IF s # <<>> /\ Head(s) \in Whitespace THEN LStrip(Tail(s)) ELSE s

RECURSIVE RStrip(_)
RStrip(s) ==
    IF s # <<>> /\ s[Len(s)] \in Whitespace THEN RStrip(SubSeq(s, 1, Len(s) - 1)) ELSE s

\* str.strip()
Strip(s) == RStrip(LStrip(s))

\* str.split("\n\n"): left-to-right, non-overlapping; "" splits to [""].
RECURSIVE SplitParaSingleNewline(_)
SplitParaSingleNewline(s) ==
    IF s = <<>> THEN << <<>> >>
    ELSE IF s[1] = NL
         THEN << <<>> >> \o SplitParaSingleNewline(Tail(s))
         ELSE LET r == SplitParaSingleNewline(Tail(s))
              IN  << <<s[1]>> \o r[1] >> \o Tail(r)

RECURSIVE SplitPara(_)
SplitPara(s) ==
    IF s = <<>> THEN << <<>> >>
    ELSE IF Len(s) >= 2 /\ s[1] = NL /\ s[2] = NL
         THEN << <<>> >> \o SplitPara(SubSeq(s, 3, Len(s)))
         ELSE LET r == SplitPara(Tail(s))
              IN  << <<s[1]>> \o r[1] >> \o Tail(r)

NonEmpty(c) == c # <<>>

\* [c.strip() for c in text.split("\n\n") if c.strip()]
ParagraphChunks(text) ==
    LET parts == SplitPara(text)
        stripped == [i \in 1..Len(parts) |-> Strip(parts[i])]
    IN  SelectSeq(stripped, NonEmpty)

\* _ingest_text lines 90-98: strip the whole file, fail when empty, else chunk.
TextFileChunks(raw) ==
    LET text == Strip(raw)
    IN  IF text = <<>>
        THEN [status |-> 400, chunks |-> <<>>]
        ELSE [status |-> 200, chunks |-> ParagraphChunks(text)]

\* extract_pdf_text_per_page strips each page's text; _ingest_pdf skips an
\* empty page and chunks the others (lines 180-183).
PdfPageChunks(raw) ==
    LET page_text == Strip(raw)
    IN  IF page_text # <<>> THEN ParagraphChunks(page_text) ELSE <<>>

(***************************************************************************)
(* Chunker specification: every text up to MaxTextLen, and the spec's      *)
(* example, chunked both ways.                                             *)
(***************************************************************************)
RECURSIVE TextsUpTo(_)
TextsUpTo(n) ==
    IF n = 0 THEN { <<>> }
    ELSE LET shorter == TextsUpTo(n - 1)
         IN  shorter \cup { Append(t, c) : t \in {u \in shorter : Len(u) = n - 1}, c \in Alphabet }

ExampleText == <<"A", NL, NL, "B", NL, NL, NL, "C">>

ChunkInputs == TextsUpTo(MaxTextLen) \cup {ExampleText}

InitChunk ==
    /\ ctext \in ChunkInputs
    /\ cmode = "new"
    /\ cout = [status |-> 0, chunks |-> <<>>]
    /\ NormalizeAtRest
    /\ QueryAtRest
    /\ IngestAtRest
    /\ HandlesAtRest
    /\ AttributionAtRest

ChunkTextFile ==
    /\ cmode = "new"
    /\ cmode' = "file"
    /\ cout' = TextFileChunks(ctext)
    /\ UNCHANGED <<ctext, normVars, queryVars, ingestVars, handleVars, attrVars>>

ChunkPdfPage ==
    /\ cmode = "new"
    /\ cmode' = "page"
    /\ cout' = [status |-> 200, chunks |-> PdfPageChunks(ctext)]
    /\ UNCHANGED <<ctext, normVars, queryVars, ingestVars, handleVars, attrVars>>

NextChunk == ChunkTextFile \/ ChunkPdfPage

SpecChunk == InitChunk /\ [][NextChunk]_vars

(***************************************************************************)
(* C3: the chunk sequence is the trimmed, non-empty segments between       *)
(* paragraph boundaries, in order.                                         *)
(***************************************************************************)
\* Position i of s lies in a paragraph boundary: a newline of a run of two or
\* more newlines, i.e. of one or more lines holding no character at all.
InBoundary(s, i) ==
    /\ s[i] = NL
    /\ \/ (i > 1 /\ s[i - 1] = NL)
       \/ (i < Len(s) /\ s[i + 1] = NL)

RECURSIVE SegmentsFrom(_, _)
SegmentsFrom(s, i) ==
    IF i > Len(s) THEN <<>>
    ELSE IF InBoundary(s, i) THEN SegmentsFrom(s, i + 1)
    ELSE LET e == CHOOSE j \in i..Len(s) :
                     /\ \A k \in i..j : ~InBoundary(s, k)
                     /\ (j = Len(s) \/ InBoundary(s, j + 1))
             seg == Strip(SubSeq(s, i, e))
         IN  (IF seg = <<>> THEN <<>> ELSE <<seg>>) \o SegmentsFrom(s, e + 1)

HasBlankLine(s) == \E i \in 1..Len(s) : InBoundary(s, i)

\* C3: in both ingestion paths the chunks are exactly the trimmed non-empty
\* segments between blank-line boundaries, in the original order; the example
\* "A\n\nB\n\n\nC" gives A, B, C; a non-blank block without a blank line gives
\* exactly one chunk.
C3_ChunksAreParagraphs ==
    cmode # "new" =>
        /\ cout.chunks = SegmentsFrom(ctext, 1)
        /\ (ctext = ExampleText => cout.chunks = << <<"A">>, <<"B">>, <<"C">> >>)
        /\ (~HasBlankLine(ctext) /\ Strip(ctext) # <<>> => cout.chunks = << Strip(ctext) >>)

C3_Witness ==
    /\ cmode = "file"
    /\ ctext = ExampleText
    /\ cout.chunks = << <<"A">>, <<"B">>, <<"C">> >>

(***************************************************************************)
(* Retrieval: score normalization (retrieval.py lines 19-35)               *)
(*                                                                         *)
(* A raw score is an integer count of units of 2^-30, so 1.0 is ScoreOne.  *)
(* On such values (31 significant bits) the float subtractions of the code *)
(* are exact and the quotients of small differences compare as the exact   *)
(* rationals do.  A normalized score is the rational num/den.              *)
(***************************************************************************)
ScoreOne == 1073741824
RelTolInv == 1000000000     \* 1 / rel_tol of math.isclose (rel_tol = 1e-09, abs_tol = 0.0)

\* Cosine distances the store may return, in units of 2^-30.
DistVals == {0, 1, 3, 4}
\* 1.0 - d
Similarity(d) == ScoreOne - d
ScoreVals == {Similarity(d) : d \in DistVals}

Abs(x) == IF x < 0 THEN 0 - x ELSE x
Max2(a, b) == IF a >= b THEN a ELSE b
Min2(a, b) == IF a <= b THEN a ELSE b
SeqMin(s) == CHOOSE x \in {s[i] : i \in 1..Len(s)} : \A j \in 1..Len(s) : x <= s[j]
SeqMax(s) == CHOOSE x \in {s[i] : i \in 1..Len(s)} : \A j \in 1..Len(s) : x >= s[j]

\* math.isclose(a, b): abs(a - b) <= max(rel_tol * max(abs(a), abs(b)), abs_tol).
\* For integers, diff * RelTolInv <= m is diff <= m \div RelTolInv.
IsClose(a, b) ==
    \/ a = b
    \/ Abs(a - b) <= Max2(Abs(a), Abs(b)) \div RelTolInv

Frac(n, d) == [num |-> n, den |-> d]
FracOne == Frac(1, 1)       \* 1.0
FracZero == Frac(0, 1)      \* 0.0
\* a < b, a = b on rationals with positive denominators
FracLess(a, b) == a.num * b.den < b.num * a.den
FracEq(a, b) == a.num * b.den = b.num * a.den

\* A plausible slip: scale by the maximum without subtracting the minimum.
NormalizeScoresNoShift(s) ==
    IF s = <<>> THEN <<>>
    ELSE LET mx == SeqMax(s)
         IN  [i \in 1..Len(s) |-> Frac(s[i], mx)]

\* A plausible slip: the quotient taken without the math.isclose test.
NormalizeScoresNoGuard(s) ==
    IF s = <<>> THEN <<>>
    ELSE LET mn == SeqMin(s)
             mx == SeqMax(s)
         IN  [i \in 1..Len(s) |-> Frac(s[i] - mn, mx - mn)]

\* _normalize_scores
NormalizeScores(s) ==
    IF s = <<>> THEN <<>>
    ELSE LET mn == SeqMin(s)
             mx == SeqMax(s)
         IN  IF IsClose(mx, mn)
             THEN [i \in 1..Len(s) |-> FracOne]
             ELSE [i \in 1..Len(s) |-> Frac(s[i] - mn, mx - mn)]

RECURSIVE SeqsUpTo(_, _)
SeqsUpTo(S, n) ==
    IF n = 0 THEN { <<>> }
    ELSE LET shorter == SeqsUpTo(S, n - 1)
         IN  shorter \cup { Append(t, x) : t \in {u \in shorter : Len(u) = n - 1}, x \in S }

\* test_normalize_scores_identical: [0.5, 0.5, 0.5]
ExampleScores == <<ScoreOne \div 2, ScoreOne \div 2, ScoreOne \div 2>>

InitNormalize ==
    /\ scores \in SeqsUpTo(ScoreVals, MaxScores) \cup {ExampleScores}
    /\ normalized = <<>>
    /\ npc = "new"
    /\ ChunkerAtRest
    /\ QueryAtRest
    /\ IngestAtRest
    /\ HandlesAtRest
    /\ AttributionAtRest

Normalize ==
    /\ npc = "new"
    /\ normalized' = NormalizeScores(scores)
    /\ npc' = "done"
    /\ UNCHANGED <<scores, chunkVars, queryVars, ingestVars, handleVars, attrVars>>

NextNormalize == Normalize

SpecNormalize == InitNormalize /\ [][NextNormalize]_vars

\* C5 as stated: for a non-empty list every normalized score lies in [0,1],
\* one equals 1.0 and, when the inputs are not all equal, one equals 0.0.
C5_Original ==
    (npc = "done" /\ scores # <<>>) =>
        /\ \A i \in 1..Len(normalized) :
              ~FracLess(normalized[i], FracZero) /\ ~FracLess(FracOne, normalized[i])
        /\ \E i \in 1..Len(normalized) : FracEq(normalized[i], FracOne)
        /\ (\E i, j \in 1..Len(scores) : scores[i] # scores[j]) =>
              \E i \in 1..Len(normalized) : FracEq(normalized[i], FracZero)

\* C5 amended: for a non-empty list every normalized score lies in [0,1] and
\* one equals 1.0; one equals 0.0 whenever the maximum and the minimum differ
\* by more than the relative tolerance 1e-9 of math.isclose.
C5_NormalizedRange ==
    (npc = "done" /\ scores # <<>>) =>
        /\ Len(normalized) = Len(scores)
        /\ \A i \in 1..Len(normalized) :
              ~FracLess(normalized[i], FracZero) /\ ~FracLess(FracOne, normalized[i])
        /\ \E i \in 1..Len(normalized) : FracEq(normalized[i], FracOne)
        /\ (SeqMax(scores) - SeqMin(scores)
                > Max2(Abs(SeqMax(scores)), Abs(SeqMin(scores))) \div RelTolInv) =>
              \E i \in 1..Len(normalized) : FracEq(normalized[i], FracZero)

\* A list whose extremes are two units apart (not close) has been normalized.
C5_Witness ==
    /\ npc = "done"
    /\ Len(scores) = 3
    /\ SeqMax(scores) - SeqMin(scores) = 3
    /\ \E i \in 1..3 : FracEq(normalized[i], FracZero)
    /\ \E i \in 1..3 : normalized[i] = Frac(2, 3)

\* C18: a non-empty list whose maximum and minimum are equal (one element,
\* or all elements tied, as [0.5, 0.5, 0.5]) is normalized to 1.0 in every
\* place, and no quotient is ever taken over a zero difference.
C18_DegenerateIsAllOnes ==
    npc = "done" =>
        /\ \A i \in 1..Len(normalized) : normalized[i].den # 0
        /\ (scores # <<>> /\ SeqMax(scores) = SeqMin(scores)) =>
              /\ Len(normalized) = Len(scores)
              /\ \A i \in 1..Len(normalized) : normalized[i] = FracOne

\* [0.5, 0.5, 0.5] has been normalized to [1.0, 1.0, 1.0].
C18_Witness ==
    /\ npc = "done"
    /\ scores = ExampleScores
    /\ normalized = <<FracOne, FracOne, FracOne>>

(***************************************************************************)
(* Retrieval: multimodal_query (retrieval.py lines 63-136)                 *)
(***************************************************************************)
\* The store answers a query with at most n_results distances, ascending.
IsAscending(s) == \A i \in 1..(Len(s) - 1) : s[i] <= s[i + 1]

StoreAnswers(n) == {s \in SeqsUpTo(DistVals, n) : IsAscending(s)}

\* lines 96-99 and 107-116: one merged entry per text id
TextCandidates(dists) ==
    LET text_scores == NormalizeScores([i \in 1..Len(dists) |-> Similarity(dists[i])])
    IN  [i \in 1..Len(dists) |->
            [id |-> "t" \o ToString(i),
             score |-> IF i <= Len(text_scores) THEN text_scores[i] ELSE FracZero,
             modality |-> "text"]]

\* lines 101-104 and 119-129: one merged entry per image id
ImageCandidates(dists) ==
    LET image_scores == NormalizeScores([i \in 1..Len(dists) |-> Similarity(dists[i])])
    IN  [i \in 1..Len(dists) |->
            [id |-> "i" \o ToString(i),
             score |-> IF i <= Len(image_scores) THEN image_scores[i] ELSE FracZero,
             modality |-> "image"]]

\* A plausible slip: an ascending stable sort reversed afterwards puts the
\* later of two tied entries first.
RECURSIVE InsertDescTiesReversed(_, _)
InsertDescTiesReversed(sorted, x) ==
    IF sorted = <<>> THEN <<x>>
    ELSE IF FracLess(x.score, Head(sorted).score)
         THEN <<Head(sorted)>> \o InsertDescTiesReversed(Tail(sorted), x)
         ELSE <<x>> \o sorted

\* list.sort(key=score, reverse=True) is stable: x goes after every entry
\* whose score is not smaller than its own.
RECURSIVE InsertDesc(_, _)
InsertDesc(sorted, x) ==
    IF sorted = <<>> THEN <<x>>
    ELSE IF ~FracLess(Head(sorted).score, x.score)
         THEN <<Head(sorted)>> \o InsertDesc(Tail(sorted), x)
         ELSE <<x>> \o sorted

RECURSIVE SortByScoreDesc(_)
SortByScoreDesc(s) ==
    IF s = <<>> THEN <<>>
    ELSE InsertDesc(SortByScoreDesc(SubSeq(s, 1, Len(s) - 1)), s[Len(s)])

\* A plausible slip: the image entries are appended before the text entries.
MergeTopKImagesFirst(text_cands, image_cands, k) ==
    LET sorted == SortByScoreDesc(image_cands \o text_cands)
    IN  SubSeq(sorted, 1, Min2(k, Len(sorted)))

\* lines 106-133: text entries, then image entries, sorted, merged[:top_k]
MergeTopK(text_cands, image_cands, k) ==
    LET sorted == SortByScoreDesc(text_cands \o image_cands)
    IN  SubSeq(sorted, 1, Min2(k, Len(sorted)))

InitQuery ==
    /\ qpc = "idle"
    /\ top_k = 0
    /\ textDist = <<>>
    /\ imageDist = <<>>
    /\ merged = <<>>
    /\ ChunkerAtRest
    /\ NormalizeAtRest
    /\ IngestAtRest
    /\ HandlesAtRest
    /\ AttributionAtRest

\* One /query request with a positive top_k.
Query ==
    /\ qpc = "idle"
    /\ \E k \in 1..MaxTopK :
         \E td \in StoreAnswers(k), idist \in StoreAnswers(k) :
            /\ top_k' = k
            /\ textDist' = td
            /\ imageDist' = idist
            /\ merged' = MergeTopK(TextCandidates(td), ImageCandidates(idist), k)
    /\ qpc' = "done"
    /\ UNCHANGED <<chunkVars, normVars, ingestVars, handleVars, attrVars>>

NextQuery == Query

SpecQuery == InitQuery /\ [][NextQuery]_vars

(***************************************************************************)
(* C4: merge order                                                         *)
(***************************************************************************)
\* The number of entries of cat that come before entry j in a stable
\* descending order: a greater score, or the same score and an earlier place.
RankIn(cat, j) ==
    Cardinality({m \in 1..Len(cat) :
        \/ FracLess(cat[j].score, cat[m].score)
        \/ (FracEq(cat[j].score, cat[m].score) /\ m < j)})

IsStableTopK(result, cat, k) ==
    /\ Len(result) = Min2(k, Len(cat))
    /\ \A j \in 1..Len(cat) : RankIn(cat, j) < k => result[RankIn(cat, j) + 1] = cat[j]

ExampleTextCands ==
    << [id |-> "t1", score |-> Frac(18, 20), modality |-> "text"],
       [id |-> "t2", score |-> Frac(8, 20), modality |-> "text"] >>

ExampleImageCands ==
    << [id |-> "i1", score |-> Frac(19, 20), modality |-> "image"],
       [id |-> "i2", score |-> Frac(10, 20), modality |-> "image"] >>

\* C4: the result of a query is the text candidates followed by the image
\* candidates, stable-sorted by descending normalized score (text before image
\* on a tie) and cut to top_k; the merge of text [0.9, 0.4] and image
\* [0.95, 0.5] with top_k = 3 is image-0.95, text-0.9, image-0.5.
C4_MergeIsStableTopK ==
    /\ qpc = "done" =>
          IsStableTopK(merged, TextCandidates(textDist) \o ImageCandidates(imageDist), top_k)
    /\ MergeTopK(ExampleTextCands, ExampleImageCands, 3)
          = << ExampleImageCands[1], ExampleTextCands[1], ExampleImageCands[2] >>

\* A query answered with two text and two image candidates whose best scores
\* tie at 1.0, cut to top_k = 2: the text entry precedes the image entry.
C4_Witness ==
    /\ qpc = "done"
    /\ top_k = 2
    /\ Len(textDist) = 2 /\ Len(imageDist) = 2
    /\ textDist[1] + 1 < textDist[2]
    /\ Len(merged) = 2
    /\ merged[1].modality = "text" /\ merged[2].modality = "image"
    /\ FracEq(merged[1].score, merged[2].score)

\* C19: when the text collection answers with at least one candidate, the
\* first result of a query (top_k >= 1) is a text entry with score 1.0,
\* whatever the image similarities; so with top_k = 1 an image is returned
\* only when the text collection answers with none.
C19_TextLeads ==
    (qpc = "done" /\ top_k >= 1) =>
        /\ Len(textDist) >= 1 =>
              /\ Len(merged) >= 1
              /\ merged[1].modality = "text"
              /\ FracEq(merged[1].score, FracOne)
        /\ (top_k = 1 /\ \E i \in 1..Len(merged) : merged[i].modality = "image") =>
              textDist = <<>>

\* The image candidates are nearer to the query than every text candidate,
\* and a text entry leads all the same.
C19_Witness ==
    /\ qpc = "done"
    /\ Len(textDist) = 2 /\ Len(imageDist) = 2
    /\ imageDist[2] < textDist[1]
    /\ textDist[1] < textDist[2]
    /\ merged[1].modality = "text"

(***************************************************************************)
(* Retrieval: _format_source_attribution (retrieval.py lines 38-60)        *)
(*                                                                         *)
(* A metadata dict is a function from the keys it holds to their values;   *)
(* page and chunk_index are integers, the other values strings.            *)
(***************************************************************************)
AttributionKeys == {"file_type", "source_path", "page", "chunk_index", "uploaded_at"}

\* The dicts of test_format_source_attribution_pdf and _text
ExamplePdfMeta ==
    [file_type |-> "pdf_text", source_path |-> "data/uploads/document.pdf",
     page |-> 5, chunk_index |-> 2]
ExampleTextMeta ==
    [file_type |-> "text", source_path |-> "data/uploads/test.txt",
     chunk_index |-> 0, uploaded_at |-> "2024-01-01T00:00:00"]

FullMetas ==
    [file_type : {"pdf_text", "text"},
     source_path : {"data/uploads/document.pdf", "data/uploads/test.txt"},
     page : {0, 5},
     chunk_index : {0, 2},
     uploaded_at : {"2024-01-01T00:00:00"}]

\* Every dict holding some of the keys
Metas == { [k \in K |-> full[k]] : full \in FullMetas, K \in SUBSET AttributionKeys }

\* metadata.get(key, default)
Get(m, key, default) == IF key \in DOMAIN m THEN m[key] ELSE default

\* sep.join(parts)
RECURSIVE Join(_, _)
Join(sep, parts) ==
    IF parts = <<>> THEN ""
    ELSE IF Len(parts) = 1 THEN parts[1]
    ELSE parts[1] \o sep \o Join(sep, Tail(parts))

\* A plausible slip: "if metadata.get(key)" in place of "if key in metadata".
FormatSourceAttributionTruthy(metadata) ==
    LET file_type == Get(metadata, "file_type", "unknown")
        source_path == Get(metadata, "source_path", "unknown")
        parts == << "Source: " \o source_path, "Type: " \o file_type >>
                 \o (IF "page" \in DOMAIN metadata /\ metadata["page"] # 0
                     THEN << "Page: " \o ToString(metadata["page"]) >> ELSE <<>>)
                 \o (IF "chunk_index" \in DOMAIN metadata /\ metadata["chunk_index"] # 0
                     THEN << "Chunk: " \o ToString(metadata["chunk_index"]) >> ELSE <<>>)
                 \o (IF "uploaded_at" \in DOMAIN metadata /\ metadata["uploaded_at"] # ""
                     THEN << "Uploaded: " \o metadata["uploaded_at"] >> ELSE <<>>)
    IN  Join(" | ", parts)

\* _format_source_attribution
FormatSourceAttribution(metadata) ==
    LET file_type == Get(metadata, "file_type", "unknown")
        source_path == Get(metadata, "source_path", "unknown")
        parts == << "Source: " \o source_path, "Type: " \o file_type >>
                 \o (IF "page" \in DOMAIN metadata
                     THEN << "Page: " \o ToString(metadata["page"]) >> ELSE <<>>)
                 \o (IF "chunk_index" \in DOMAIN metadata
                     THEN << "Chunk: " \o ToString(metadata["chunk_index"]) >> ELSE <<>>)
                 \o (IF "uploaded_at" \in DOMAIN metadata
                     THEN << "Uploaded: " \o metadata["uploaded_at"] >> ELSE <<>>)
    IN  Join(" | ", parts)

InitAttribution ==
    /\ ameta \in Metas
    /\ asource = ""
    /\ apc = "new"
    /\ ChunkerAtRest
    /\ NormalizeAtRest
    /\ QueryAtRest
    /\ IngestAtRest
    /\ HandlesAtRest

FormatAttribution ==
    /\ apc = "new"
    /\ asource' = FormatSourceAttribution(ameta)
    /\ apc' = "done"
    /\ UNCHANGED <<ameta, chunkVars, normVars, queryVars, ingestVars, handleVars>>

NextAttribution == FormatAttribution

SpecAttribution == InitAttribution /\ [][NextAttribution]_vars

\* C17: the attribution is "Source: <source_path>", "Type: <file_type>",
\* then "Page: <page>", "Chunk: <chunk_index>", "Uploaded: <uploaded_at>" in
\* that order, each of the last three present exactly when the metadata holds
\* its key (whatever the value, 0 included); the PDF example gives Source,
\* Type, Page: 5, Chunk: 2 and no Uploaded part.
C17_AttributionOrder ==
    apc = "done" =>
        /\ asource =
              "Source: " \o Get(ameta, "source_path", "unknown")
              \o " | Type: " \o Get(ameta, "file_type", "unknown")
              \o (IF "page" \in DOMAIN ameta
                  THEN " | Page: " \o ToString(ameta["page"]) ELSE "")
              \o (IF "chunk_index" \in DOMAIN ameta
                  THEN " | Chunk: " \o ToString(ameta["chunk_index"]) ELSE "")
              \o (IF "uploaded_at" \in DOMAIN ameta
                  THEN " | Uploaded: " \o ameta["uploaded_at"] ELSE "")
        /\ ameta = ExamplePdfMeta =>
              asource = "Source: data/uploads/document.pdf | Type: pdf_text | Page: 5 | Chunk: 2"
        /\ ameta = ExampleTextMeta =>
              asource = "Source: data/uploads/test.txt | Type: text | Chunk: 0 | Uploaded: 2024-01-01T00:00:00"

\* The PDF example has been formatted.
C17_Witness ==
    /\ apc = "done"
    /\ ameta = ExamplePdfMeta
    /\ asource = "Source: data/uploads/document.pdf | Type: pdf_text | Page: 5 | Chunk: 2"

(***************************************************************************)
(* Ingestion: process_upload and the three routines (ingestion.py)         *)
(*                                                                         *)
(* A file's bytes are a sequence of tokens: the characters of a text, or a *)
(* magic token followed by the pixels of an image or the pages of a PDF.   *)
(***************************************************************************)
SUPPORTED_TEXT == {"text/plain"}
SUPPORTED_IMAGES == {"image/png", "image/jpeg", "image/jpg"}
SUPPORTED_PDF == {"application/pdf"}

\* Requests: every upload carries a plain file name (a stem and its last
\* extension), so file.filename is never empty and names no directory.
ContentTypes == {"text/plain", "image/png", "application/pdf", "application/zip"}
Extensions == {".txt", ".PNG", ".pdf", ".bin"}
Filenames == { [stem |-> "a", ext |-> e] : e \in Extensions }

TwoParagraphs == <<"A", NL, NL, "B">>
BlankText == <<" ", NL>>
ImageBytes == <<"PNG", "px1">>
PdfBytes == <<"PDF", "pgT", "pgS">>      \* page 1 has a text layer, page 2 is a scan
ScannedPdf == <<"PDF", "pgS">>           \* one page, image only
EmptyPdf == <<"PDF">>                    \* a well-formed PDF of no page
CorruptPdf == <<"PDF", "bad">>
ZipBytes == <<"PK">>
\* The declared content type is the client's to choose; the bytes of a file
\* are of the kind its name says.
ContentsOf(ext) ==
    CASE ext = ".txt" -> {TwoParagraphs, BlankText}
      [] ext = ".PNG" -> {ImageBytes}
      [] ext = ".pdf" -> {PdfBytes, CorruptPdf}
      [] OTHER -> {ZipBytes}

\* str.lower() on the extension
Lower(e) ==
    CASE e = ".PNG" -> ".png"
      [] e = ".TXT" -> ".txt"
      [] e = ".PDF" -> ".pdf"
      [] OTHER -> e

FileName(fn) == fn.stem \o fn.ext
\* filename.lower().endswith(suffix), the suffix being a dotted extension
EndsWith(fn, suffix) == Lower(fn.ext) = suffix

\* os.path.join(upload_dir, filename)
StoredPath(fn) == "data/uploads" \o "/" \o FileName(fn)
\* os.path.join("data/extracted", os.path.splitext(os.path.basename(path))[0])
ExtractDir(fn) == "data/extracted" \o "/" \o fn.stem

\* open(path, "wb") creates the file or truncates it to nothing
Truncated(d, path) == (path :> <<>>) @@ d

\* A plausible slip: the content is never written to the opened file.
WriteNothing(old, data) == old

\* f.write(content) through a descriptor at offset 0: bytes beyond the
\* written ones, put there since the open, stay.
WriteAt0(old, data) == data \o SubSeq(old, Len(data) + 1, Len(old))

\* lines 62-70: the routine an upload is dispatched to
Route(ct, fn) ==
    IF ct \in SUPPORTED_TEXT \/ EndsWith(fn, ".txt") THEN "text"
    ELSE IF ct \in SUPPORTED_IMAGES
            \/ EndsWith(fn, ".png") \/ EndsWith(fn, ".jpg") \/ EndsWith(fn, ".jpeg")
         THEN "image"
    ELSE IF ct \in SUPPORTED_PDF \/ EndsWith(fn, ".pdf") THEN "pdf"
    ELSE "unsupported"

\* A plausible slip: every uuid4() gives the same value (a fixed seed).
NewUuidFixed(n) == "u" \o ToString(0)

\* str(uuid.uuid4()): the n-th value drawn is unlike every other
NewUuid(n) == "u" \o ToString(n)

\* datetime.utcnow().isoformat()
Timestamp(t) == "T" \o ToString(t)

\* open(path, "r", encoding="utf-8", errors="ignore").read(): bytes that do
\* not decode are dropped
Undecodable == {"\\xff"}
IsDecodable(b) == b \notin Undecodable
DecodeText(bytes) == SelectSeq(bytes, IsDecodable)

\* embed_text / embed_image: the vector is a function of what is embedded
EmbedText(chunk) == <<"text-space", chunk>>
EmbedImage(pix) == <<"clip-space", pix>>

\* Image.open(path).convert("RGB"): the pixels, or an exception
IsImage(bytes) == Len(bytes) = 2 /\ bytes[1] = "PNG"
Pixels(bytes) == bytes[2]

\* PdfReader / pdfium.PdfDocument: the pages, or an exception
PageTokens == {"pgT", "pgS"}
IsPdf(bytes) ==
    /\ Len(bytes) >= 1 /\ bytes[1] = "PDF"
    /\ \A i \in 2..Len(bytes) : bytes[i] \in PageTokens
PdfPages(bytes) == Tail(bytes)
\* page.extract_text() or ""
PageText(tok) == IF tok = "pgT" THEN <<"A", NL, NL, "B", NL>> ELSE <<>>
\* page.render(scale=2.0).to_pil().convert("RGB")
Render(tok) == IF tok = "pgT" THEN "rT" ELSE "rS"
\* pytesseract.image_to_string(image).strip() with Tesseract at work
OcrText(pix) ==
    CASE pix = "px1" -> "hello"
      [] pix = "rT" -> "A B"
      [] pix = "rS" -> "scan"
      [] OTHER -> ""

\* What the surroundings do to one ingestion: nothing, Tesseract raising
\* (not installed, unreadable image), or the image collection's upsert raising.
Faults == {"none", "ocr", "image_upsert"}

\* ocr_image: the extracted text, or "" when anything is raised
OcrImage(pix, fault) == IF fault = "ocr" THEN "" ELSE OcrText(pix)

\* A plausible slip: the page part left out of a PDF chunk's id.
PdfTextIdNoPage(doc_id, page, idx) == "pdftext::" \o doc_id \o "::c" \o ToString(idx)

\* line 104, line 224, line 209, line 139
TextId(doc_id, i) == "txt::" \o doc_id \o "::" \o ToString(i)
PdfTextId(doc_id, page, idx) ==
    "pdftext::" \o doc_id \o "::p" \o ToString(page) \o "::c" \o ToString(idx)
PageFile(page) == "page" \o ToString(page) \o ".png"
PdfImageId(doc_id, page, basename) ==
    "pdfimg::" \o doc_id \o "::p" \o ToString(page) \o "::" \o basename
ImageId(doc_id) == "img::" \o doc_id

\* What a routine did: the exception it left with (if any), its return
\* value, the records it upserted, the files it wrote, the uuids it drew,
\* the upserts it called (in order, by collection).
Outcome(exc, code, detail, doc_id, body, text_ups, image_ups, files, drawn, issued) ==
    [exc |-> exc, code |-> code, detail |-> detail, doc_id |-> doc_id, body |-> body,
     text_ups |-> text_ups, image_ups |-> image_ups, files |-> files, drawn |-> drawn,
     issued |-> issued]

NoBody == [ingested_chunks |-> 0, ingested_images |-> 0, ocr_chars |-> 0,
           text_chunks |-> 0, embedded_images |-> 0]

\* A plausible slip: no "if not text" test before chunking.
IngestTextNoEmptyCheck(path, bytes, n, t) ==
    LET chunks == ParagraphChunks(Strip(DecodeText(bytes)))
        doc_id == NewUuid(n)
        ups == [i \in 1..Len(chunks) |->
                  [id |-> TextId(doc_id, i - 1),
                   embedding |-> EmbedText(chunks[i]),
                   metadata |-> [doc_id |-> doc_id, file_type |-> "text",
                                 source_path |-> path, chunk_index |-> i - 1,
                                 uploaded_at |-> Timestamp(t)],
                   document |-> chunks[i]]]
    IN  Outcome("none", 200, "ok", doc_id,
                [NoBody EXCEPT !.ingested_chunks = Len(chunks)],
                ups, <<>>, <<>>, 1, <<"text">>)

\* _ingest_text
IngestText(path, bytes, n, t) ==
    LET text == Strip(DecodeText(bytes))
        chunks == ParagraphChunks(text)
        doc_id == NewUuid(n)
        ups == [i \in 1..Len(chunks) |->
                  [id |-> TextId(doc_id, i - 1),
                   embedding |-> EmbedText(chunks[i]),
                   metadata |-> [doc_id |-> doc_id, file_type |-> "text",
                                 source_path |-> path, chunk_index |-> i - 1,
                                 uploaded_at |-> Timestamp(t)],
                   document |-> chunks[i]]]
    IN  IF text = <<>>
        THEN Outcome("http", 400, "Empty text file", "", NoBody, <<>>, <<>>, <<>>, 0, <<>>)
        ELSE Outcome("none", 200, "ok", doc_id,
                     [NoBody EXCEPT !.ingested_chunks = Len(chunks)],
                     ups, <<>>, <<>>, 1, <<"text">>)

\* A plausible slip: upsert_text called where upsert_images is meant.
IngestImageIntoText(path, bytes, n, t, fault) ==
    LET doc_id == NewUuid(n)
        ocr_text == OcrImage(Pixels(bytes), fault)
        ups == << [id |-> ImageId(doc_id),
                   embedding |-> EmbedImage(Pixels(bytes)),
                   metadata |-> [doc_id |-> doc_id, file_type |-> "image",
                                 source_path |-> path, uploaded_at |-> Timestamp(t),
                                 ocr_text |-> ocr_text]] >>
    IN  IF ~IsImage(bytes)
        THEN Outcome("other", 0, "cannot identify image file", "", NoBody,
                     <<>>, <<>>, <<>>, 0, <<>>)
        ELSE Outcome("none", 200, "ok", doc_id,
                     [NoBody EXCEPT !.ingested_images = 1, !.ocr_chars = Len(ocr_text)],
                     ups, <<>>, <<>>, 1, <<"text">>)

\* A plausible slip: ocr_image without its try/except, so that what
\* pytesseract raises leaves _ingest_image.
IngestImageOcrAborts(path, bytes, n, t, fault) ==
    LET doc_id == NewUuid(n)
        ocr_text == OcrText(Pixels(bytes))
        ups == << [id |-> ImageId(doc_id),
                   embedding |-> EmbedImage(Pixels(bytes)),
                   metadata |-> [doc_id |-> doc_id, file_type |-> "image",
                                 source_path |-> path, uploaded_at |-> Timestamp(t),
                                 ocr_text |-> ocr_text]] >>
    IN  IF ~IsImage(bytes)
        THEN Outcome("other", 0, "cannot identify image file", "", NoBody,
                     <<>>, <<>>, <<>>, 0, <<>>)
        ELSE IF fault = "ocr"
        THEN Outcome("other", 0, "tesseract is not installed", "", NoBody,
                     <<>>, <<>>, <<>>, 1, <<>>)
        ELSE IF fault = "image_upsert"
        THEN Outcome("other", 0, "image collection unavailable", "", NoBody,
                     <<>>, <<>>, <<>>, 1, <<"image">>)
        ELSE Outcome("none", 200, "ok", doc_id,
                     [NoBody EXCEPT !.ingested_images = 1, !.ocr_chars = Len(ocr_text)],
                     <<>>, ups, <<>>, 1, <<"image">>)

\* _ingest_image
IngestImage(path, bytes, n, t, fault) ==
    LET doc_id == NewUuid(n)
        ocr_text == OcrImage(Pixels(bytes), fault)
        ups == << [id |-> ImageId(doc_id),
                   embedding |-> EmbedImage(Pixels(bytes)),
                   metadata |-> [doc_id |-> doc_id, file_type |-> "image",
                                 source_path |-> path, uploaded_at |-> Timestamp(t),
                                 ocr_text |-> ocr_text]] >>
    IN  IF ~IsImage(bytes)
        THEN Outcome("other", 0, "cannot identify image file", "", NoBody,
                     <<>>, <<>>, <<>>, 0, <<>>)
        ELSE IF fault = "image_upsert"
        THEN Outcome("other", 0, "image collection unavailable", "", NoBody,
                     <<>>, <<>>, <<>>, 1, <<"image">>)
        ELSE Outcome("none", 200, "ok", doc_id,
                     [NoBody EXCEPT !.ingested_images = 1, !.ocr_chars = Len(ocr_text)],
                     <<>>, ups, <<>>, 1, <<"image">>)

\* the chunk records of pages p.. of a PDF (lines 178-193, ids of line 224)
RECURSIVE PdfTextUnits(_, _, _, _, _)
PdfTextUnits(doc_id, path, t, pages, p) ==
    IF p > Len(pages) THEN <<>>
    ELSE LET chunks == PdfPageChunks(PageText(pages[p]))
         IN  [i \in 1..Len(chunks) |->
                [id |-> PdfTextId(doc_id, p, i - 1),
                 embedding |-> EmbedText(chunks[i]),
                 metadata |-> [doc_id |-> doc_id, file_type |-> "pdf_text",
                               source_path |-> path, uploaded_at |-> Timestamp(t),
                               page |-> p, chunk_index |-> i - 1],
                 document |-> chunks[i]]]
             \o PdfTextUnits(doc_id, path, t, pages, p + 1)

\* os.path.join(output_dir, f"page{page_index + 1}.png")
ImagePath(dir, page) == dir \o "/" \o PageFile(page)

\* extract_pdf_images: one PNG per page under output_dir
RenderedFiles(dir, pages) ==
    [q \in {ImagePath(dir, i) : i \in 1..Len(pages)} |->
        <<"PNG", Render(pages[CHOOSE i \in 1..Len(pages) : ImagePath(dir, i) = q])>>]

\* A plausible slip: the page images are upserted before the text chunks.
IngestPdfImagesFirst(path, fn, bytes, n, t, fault) ==
    LET doc_id == NewUuid(n)
        pages == PdfPages(bytes)
        text_ups == PdfTextUnits(doc_id, path, t, pages, 1)
        dir == ExtractDir(fn)
        files == RenderedFiles(dir, pages)
        image_ups == [i \in 1..Len(pages) |->
                        LET img_path == ImagePath(dir, i)
                            pix == Pixels(files[img_path])
                        IN  [id |-> PdfImageId(doc_id, i, PageFile(i)),
                             embedding |-> EmbedImage(pix),
                             metadata |-> [doc_id |-> doc_id, file_type |-> "pdf_image",
                                           source_path |-> path,
                                           uploaded_at |-> Timestamp(t),
                                           page |-> i, image_path |-> img_path,
                                           ocr_text |-> OcrImage(pix, fault)]]]
        issued == (IF image_ups # <<>> THEN <<"image">> ELSE <<>>)
                  \o (IF text_ups # <<>> THEN <<"text">> ELSE <<>>)
    IN  IF ~IsPdf(bytes)
        THEN Outcome("other", 0, "invalid pdf file", "", NoBody, <<>>, <<>>, <<>>, 1, <<>>)
        ELSE IF fault = "image_upsert" /\ image_ups # <<>>
        THEN Outcome("other", 0, "image collection unavailable", "", NoBody,
                     <<>>, <<>>, files, 1, <<"image">>)
        ELSE Outcome("none", 200, "ok", doc_id,
                     [NoBody EXCEPT !.text_chunks = Len(text_ups),
                                    !.embedded_images = Len(image_ups)],
                     text_ups, image_ups, files, 1, issued)

\* A plausible slip: both upserts are called whatever the lists hold.
IngestPdfUnguarded(path, fn, bytes, n, t, fault) ==
    LET doc_id == NewUuid(n)
        pages == PdfPages(bytes)
        text_ups == PdfTextUnits(doc_id, path, t, pages, 1)
        dir == ExtractDir(fn)
        files == RenderedFiles(dir, pages)
        image_ups == [i \in 1..Len(pages) |->
                        LET img_path == ImagePath(dir, i)
                            pix == Pixels(files[img_path])
                        IN  [id |-> PdfImageId(doc_id, i, PageFile(i)),
                             embedding |-> EmbedImage(pix),
                             metadata |-> [doc_id |-> doc_id, file_type |-> "pdf_image",
                                           source_path |-> path,
                                           uploaded_at |-> Timestamp(t),
                                           page |-> i, image_path |-> img_path,
                                           ocr_text |-> OcrImage(pix, fault)]]]
        issued == <<"text", "image">>
    IN  IF ~IsPdf(bytes)
        THEN Outcome("other", 0, "invalid pdf file", "", NoBody, <<>>, <<>>, <<>>, 1, <<>>)
        ELSE IF fault = "image_upsert" /\ image_ups # <<>>
        THEN Outcome("other", 0, "image collection unavailable", "", NoBody,
                     text_ups, <<>>, files, 1, issued)
        ELSE Outcome("none", 200, "ok", doc_id,
                     [NoBody EXCEPT !.text_chunks = Len(text_ups),
                                    !.embedded_images = Len(image_ups)],
                     text_ups, image_ups, files, 1, issued)

\* _ingest_pdf
IngestPdf(path, fn, bytes, n, t, fault) ==
    LET doc_id == NewUuid(n)
        pages == PdfPages(bytes)
        text_ups == PdfTextUnits(doc_id, path, t, pages, 1)
        dir == ExtractDir(fn)
        files == RenderedFiles(dir, pages)
        image_ups == [i \in 1..Len(pages) |->
                        LET img_path == ImagePath(dir, i)
                            pix == Pixels(files[img_path])
                        IN  [id |-> PdfImageId(doc_id, i, PageFile(i)),
                             embedding |-> EmbedImage(pix),
                             metadata |-> [doc_id |-> doc_id, file_type |-> "pdf_image",
                                           source_path |-> path,
                                           uploaded_at |-> Timestamp(t),
                                           page |-> i, image_path |-> img_path,
                                           ocr_text |-> OcrImage(pix, fault)]]]
        \* lines 222-230: a list with nothing in it is not upserted
        issued == (IF text_ups # <<>> THEN <<"text">> ELSE <<>>)
                  \o (IF image_ups # <<>> THEN <<"image">> ELSE <<>>)
    IN  IF ~IsPdf(bytes)
        THEN Outcome("other", 0, "invalid pdf file", "", NoBody, <<>>, <<>>, <<>>, 1, <<>>)
        ELSE IF fault = "image_upsert" /\ image_ups # <<>>
        THEN Outcome("other", 0, "image collection unavailable", "", NoBody,
                     text_ups, <<>>, files, 1, issued)
        ELSE Outcome("none", 200, "ok", doc_id,
                     [NoBody EXCEPT !.text_chunks = Len(text_ups),
                                    !.embedded_images = Len(image_ups)],
                     text_ups, image_ups, files, 1, issued)

\* lines 62-70: dispatch on the route; line 70 raises HTTPException(415)
Dispatch(ct, fn, path, bytes, n, t, fault) ==
    LET route == Route(ct, fn)
    IN  CASE route = "text" -> IngestText(path, bytes, n, t)
          [] route = "image" -> IngestImage(path, bytes, n, t, fault)
          [] route = "pdf" -> IngestPdf(path, fn, bytes, n, t, fault)
          [] OTHER -> Outcome("http", 415, "Unsupported file type: " \o ct, "",
                              NoBody, <<>>, <<>>, <<>>, 0, <<>>)

\* A plausible slip: no "except HTTPException: raise" before "except Exception".
SurfaceAllAs500(out) ==
    IF out.exc = "none"
    THEN [code |-> 200, detail |-> "ok", doc_id |-> out.doc_id, body |-> out.body]
    ELSE [code |-> 500, detail |-> "Error processing file: " \o out.detail,
          doc_id |-> "", body |-> NoBody]

\* lines 71-75: an HTTPException passes, anything else becomes a 500
Surface(out) ==
    IF out.exc = "none"
    THEN [code |-> 200, detail |-> "ok", doc_id |-> out.doc_id, body |-> out.body]
    ELSE IF out.exc = "http"
    THEN [code |-> out.code, detail |-> out.detail, doc_id |-> "", body |-> NoBody]
    ELSE [code |-> 500, detail |-> "Error processing file: " \o out.detail,
          doc_id |-> "", body |-> NoBody]

\* collection.upsert(ids=..., ...): each id is set, in order
Upsert(coll, ups) ==
    [id \in (DOMAIN coll) \cup {ups[i].id : i \in 1..Len(ups)} |->
        IF \E i \in 1..Len(ups) : ups[i].id = id
        THEN ups[CHOOSE i \in 1..Len(ups) :
                    ups[i].id = id /\ \A j \in 1..Len(ups) : ups[j].id = id => j <= i]
        ELSE coll[id]]

Requests == 1..MaxUploads
NoRequest == [content_type |-> "", filename |-> [stem |-> "", ext |-> ""], content |-> <<>>]
NoResponse == [code |-> 0, detail |-> "", doc_id |-> "", body |-> NoBody, route |-> "",
               fault |-> "", issued |-> <<>>]

Init ==
    /\ upc = [r \in Requests |-> "new"]
    /\ ureq = [r \in Requests |-> NoRequest]
    /\ ures = [r \in Requests |-> NoResponse]
    /\ disk = <<>>
    /\ textColl = <<>>
    /\ imageColl = <<>>
    /\ uuids = 0
    /\ now = 0
    /\ ChunkerAtRest
    /\ NormalizeAtRest
    /\ QueryAtRest
    /\ HandlesAtRest
    /\ AttributionAtRest

\* process_upload up to "await file.read()" (lines 47-58): the request is
\* received and the stored file is opened for writing.  Requests are numbered
\* in the order in which they arrive.
Receive(r, req) ==
    /\ upc[r] = "new"
    /\ \A q \in Requests : q < r => upc[q] # "new"
    /\ ureq' = [ureq EXCEPT ![r] = req]
    /\ disk' = Truncated(disk, StoredPath(req.filename))
    /\ upc' = [upc EXCEPT ![r] = "open"]
    /\ UNCHANGED <<ures, textColl, imageColl, uuids, now>>
    /\ UNCHANGED <<chunkVars, normVars, queryVars, handleVars, attrVars>>

\* An upload of any declared content type under any of the file names.
UploadOpen(r) ==
    \E ct \in ContentTypes, fn \in Filenames :
       \E content \in ContentsOf(fn.ext) :
          Receive(r, [content_type |-> ct, filename |-> fn, content |-> content])

\* process_upload from the write on (lines 59-75): the content is written,
\* the upload classified and ingested, the response returned.
Finish(r, fault) ==
    /\ upc[r] = "open"
    /\ LET ct == ureq[r].content_type
           fn == ureq[r].filename
           path == StoredPath(fn)
           saved == (path :> WriteAt0(disk[path], ureq[r].content)) @@ disk
           out == Dispatch(ct, fn, path, saved[path], uuids, now, fault)
       IN  /\ disk' = out.files @@ saved
           /\ textColl' = Upsert(textColl, out.text_ups)
           /\ imageColl' = Upsert(imageColl, out.image_ups)
           /\ uuids' = uuids + out.drawn
           /\ ures' = [ures EXCEPT ![r] = [route |-> Route(ct, fn), fault |-> fault,
                                           issued |-> out.issued] @@ Surface(out)]
    /\ now' = now + 1
    /\ upc' = [upc EXCEPT ![r] = "done"]
    /\ UNCHANGED ureq
    /\ UNCHANGED <<chunkVars, normVars, queryVars, handleVars, attrVars>>

\* An upload completed with Tesseract and the collections at work.
UploadFinish(r) == Finish(r, "none")

Next == \E r \in Requests : UploadOpen(r) \/ UploadFinish(r)

Spec == Init /\ [][Next]_vars

(***************************************************************************)
(* Ingestion where the surroundings may fail: Tesseract may raise inside   *)
(* ocr_image, and the image collection's upsert may raise.  The uploads    *)
(* are images and PDFs declared as what they are.                          *)
(***************************************************************************)
DocUploads ==
    { [content_type |-> "image/png", filename |-> [stem |-> "a", ext |-> ".PNG"],
       content |-> ImageBytes] }
    \cup { [content_type |-> "application/pdf", filename |-> [stem |-> "a", ext |-> ".pdf"],
            content |-> c] : c \in {PdfBytes, ScannedPdf, EmptyPdf, CorruptPdf} }

UploadOpenDoc(r) == \E req \in DocUploads : Receive(r, req)

\* An upload completed while pytesseract raises on every image.
UploadFinishOcrFails(r) == Finish(r, "ocr")

\* An upload completed while upsert_images raises.
UploadFinishUpsertFails(r) == Finish(r, "image_upsert")

NextFaults ==
    \E r \in Requests :
        \/ UploadOpenDoc(r)
        \/ UploadFinish(r)
        \/ UploadFinishOcrFails(r)
        \/ UploadFinishUpsertFails(r)

SpecFaults == Init /\ [][NextFaults]_vars

(***************************************************************************)
(* Claims on the ingestion pipeline                                        *)
(***************************************************************************)
Done(r) == upc[r] = "done"
Finishes(r) == upc[r] = "open" /\ upc'[r] = "done"
SupportedTypes == SUPPORTED_TEXT \cup SUPPORTED_IMAGES \cup SUPPORTED_PDF
SupportedExtensions == {".txt", ".png", ".jpg", ".jpeg", ".pdf"}

\* C1: an upload whose declared content-type is in a supported set goes to
\* the routine of that content-type whatever its extension; the extension
\* decides only when the content-type is in no supported set.
C1_ContentTypeFirst ==
    \A r \in Requests : Done(r) =>
        LET ct == ureq[r].content_type
            ext == Lower(ureq[r].filename.ext)
        IN  /\ ct \in SUPPORTED_TEXT => ures[r].route = "text"
            /\ ct \in SUPPORTED_IMAGES => ures[r].route = "image"
            /\ ct \in SUPPORTED_PDF => ures[r].route = "pdf"
            /\ ct \notin SupportedTypes =>
                  ures[r].route = CASE ext = ".txt" -> "text"
                                    [] ext \in {".png", ".jpg", ".jpeg"} -> "image"
                                    [] ext = ".pdf" -> "pdf"
                                    [] OTHER -> "unsupported"

Records(coll) == {coll[id] : id \in DOMAIN coll}
AllRecords == Records(textColl) \cup Records(imageColl)

\* the id of a rendered page: prefix::doc_id::p{page}::{basename of image_path}
IsPageImageId(u) ==
    \E k \in {u.metadata.page} :
        LET basename == "page" \o ToString(k) \o ".png"
        IN  /\ u.metadata.image_path = "data/extracted/a/" \o basename
            /\ u.id = "pdfimg::" \o u.metadata.doc_id \o "::p"
                        \o ToString(u.metadata.page) \o "::" \o basename

\* C2 as stated: every stored id has the form
\* prefix::doc_id[::p{page}][::c{chunk_index}|::{basename}], a plain-text
\* chunk being prefix::doc_id::c{chunk_index}.
C2_Original ==
    \A u \in AllRecords :
        LET m == u.metadata
        IN  CASE m.file_type = "text" ->
                    u.id = "txt::" \o m.doc_id \o "::c" \o ToString(m.chunk_index)
              [] m.file_type = "pdf_text" ->
                    u.id = "pdftext::" \o m.doc_id \o "::p" \o ToString(m.page)
                              \o "::c" \o ToString(m.chunk_index)
              [] m.file_type = "pdf_image" -> IsPageImageId(u)
              [] m.file_type = "image" -> u.id = "img::" \o m.doc_id
              [] OTHER -> FALSE

\* C2 amended: as C2, except that a plain-text chunk's id is
\* txt::doc_id::{chunk_index}, the index without the letter c.
C2_IdFormat ==
    \A u \in AllRecords :
        LET m == u.metadata
        IN  CASE m.file_type = "text" ->
                    u.id = "txt::" \o m.doc_id \o "::" \o ToString(m.chunk_index)
              [] m.file_type = "pdf_text" ->
                    u.id = "pdftext::" \o m.doc_id \o "::p" \o ToString(m.page)
                              \o "::c" \o ToString(m.chunk_index)
              [] m.file_type = "pdf_image" -> IsPageImageId(u)
              [] m.file_type = "image" -> u.id = "img::" \o m.doc_id
              [] OTHER -> FALSE

\* A text file and a PDF have been ingested: the collections hold a second
\* text chunk, a PDF chunk and a rendered second page.
C2_Witness ==
    /\ \E u \in Records(textColl) : u.metadata.file_type = "text" /\ u.metadata.chunk_index = 1
    /\ \E u \in Records(textColl) : u.metadata.file_type = "pdf_text" /\ u.metadata.chunk_index = 1
    /\ \E u \in Records(imageColl) : u.metadata.file_type = "pdf_image" /\ u.metadata.page = 2

\* C7: a Document is immutable: whatever is uploaded later, the file at its
\* source_path still holds the bytes it was ingested from, and each rendered
\* page at an image_path still holds the rendering of that Document's page.
C7_DocumentImmutable ==
    \A r \in Requests : (Done(r) /\ ures[r].code = 200) =>
        /\ disk[StoredPath(ureq[r].filename)] = ureq[r].content
        /\ \A u \in Records(imageColl) :
              (u.metadata.file_type = "pdf_image" /\ u.metadata.doc_id = ures[r].doc_id) =>
                  disk[u.metadata.image_path]
                     = <<"PNG", Render(PdfPages(ureq[r].content)[u.metadata.page])>>

RECURSIVE SumOver(_, _)
SumOver(f, S) ==
    IF S = {} THEN 0
    ELSE LET x == CHOOSE y \in S : TRUE IN f[x] + SumOver(f, S \ {x})

TextCount == [r \in Requests |-> ures[r].body.ingested_chunks + ures[r].body.text_chunks]
ImageCount == [r \in Requests |-> ures[r].body.ingested_images + ures[r].body.embedded_images]
Ingested == {r \in Requests : Done(r) /\ ures[r].code = 200}

\* C8: no record is ever overwritten: each collection holds as many records
\* as the ingestions so far have upserted (so the ids of one ingestion are
\* pairwise distinct and those of two ingestions disjoint), every ingestion
\* has a doc_id of its own, and no step changes or removes a stored record.
C8_IdsNeverShared ==
    /\ [](/\ Cardinality(DOMAIN textColl) = SumOver(TextCount, Ingested)
          /\ Cardinality(DOMAIN imageColl) = SumOver(ImageCount, Ingested)
          /\ \A r, q \in Ingested : r # q => ures[r].doc_id # ures[q].doc_id
          /\ \A u \in AllRecords : \E r \in Ingested : u.metadata.doc_id = ures[r].doc_id)
    /\ [][/\ \A id \in DOMAIN textColl : id \in DOMAIN textColl' /\ textColl'[id] = textColl[id]
          /\ \A id \in DOMAIN imageColl : id \in DOMAIN imageColl' /\ imageColl'[id] = imageColl[id]
         ]_vars

\* The same text file, under the same name, has been ingested twice.
C8_Witness ==
    /\ \E r, q \in Ingested :
          /\ r # q
          /\ ureq[r] = ureq[q]
          /\ ures[r].route = "text"
          /\ Cardinality(DOMAIN textColl) = 4

\* C9: the bytes are on disk at the stored path when an upload fails
\* (unsupported type, empty text file, extraction error), and no step ever
\* removes a file.
C9_SavedBeforeFailure ==
    /\ [][\A r \in Requests : (Finishes(r) /\ ures'[r].code # 200) =>
             LET path == StoredPath(ureq[r].filename)
                 content == ureq[r].content
             IN  /\ path \in DOMAIN disk'
                 /\ Len(disk'[path]) >= Len(content)
                 /\ SubSeq(disk'[path], 1, Len(content)) = content
         ]_vars
    /\ [][DOMAIN disk \subseteq DOMAIN disk']_vars
    /\ [](\A r \in Requests : Done(r) => StoredPath(ureq[r].filename) \in DOMAIN disk)

\* An unsupported upload and a corrupt PDF have both failed.
C9_Witness ==
    \E r, q \in Requests :
        /\ Done(r) /\ ures[r].code = 415
        /\ Done(q) /\ ures[q].code = 500 /\ ures[q].route = "pdf"
        /\ StoredPath(ureq[r].filename) \in DOMAIN disk
        /\ StoredPath(ureq[q].filename) \in DOMAIN disk

\* C10: an upload with an unsupported content-type and no supported
\* extension is answered 415 with the content-type in the detail, not 500,
\* and it upserts nothing.
C10_UnsupportedIs415 ==
    [][\A r \in Requests :
          (/\ Finishes(r)
           /\ ureq[r].content_type \notin SupportedTypes
           /\ Lower(ureq[r].filename.ext) \notin SupportedExtensions) =>
              /\ ures'[r].code = 415
              /\ ures'[r].detail = "Unsupported file type: " \o ureq[r].content_type
              /\ ures'[r].doc_id = ""
              /\ textColl' = textColl
              /\ imageColl' = imageColl
      ]_vars

C10_Witness ==
    \E r \in Requests :
        /\ Done(r)
        /\ ureq[r].content_type = "application/zip"
        /\ ureq[r].filename.ext = ".bin"
        /\ ures[r].code = 415

\* the ids a step adds to a collection
NewIds(coll, coll2) == (DOMAIN coll2) \ (DOMAIN coll)

\* C11: a text ingestion answers 400 "Empty text file" exactly when the
\* file's chunk sequence is empty; then nothing is upserted into the text
\* collection; otherwise the upsert receives at least one chunk, every chunk
\* is stored in order, and ingested_chunks is the number of chunks upserted.
C11_EmptyDocumentIs400 ==
    [][\A r \in Requests : (Finishes(r) /\ ures'[r].route = "text") =>
          LET path == StoredPath(ureq[r].filename)
              chunks == ParagraphChunks(DecodeText(disk'[path]))
              added == NewIds(textColl, textColl')
          IN  /\ (ures'[r].code = 400) <=> (chunks = <<>>)
              /\ ures'[r].code \in {200, 400}
              /\ imageColl' = imageColl
              /\ chunks = <<>> =>
                    /\ ures'[r].detail = "Empty text file"
                    /\ ures'[r].issued = <<>>
                    /\ textColl' = textColl
              /\ chunks # <<>> =>
                    /\ ures'[r].issued = <<"text">>
                    /\ Cardinality(added) = Len(chunks)
                    /\ ures'[r].body.ingested_chunks = Len(chunks)
                    /\ \A i \in 1..Len(chunks) :
                          /\ TextId(ures'[r].doc_id, i - 1) \in added
                          /\ textColl'[TextId(ures'[r].doc_id, i - 1)].document = chunks[i]
      ]_vars

\* An all-whitespace text file has been refused with nothing stored, and a
\* two-paragraph one ingested as two chunks.
C11_Witness ==
    \E r, q \in Requests :
        /\ Done(r) /\ ures[r].route = "text" /\ ureq[r].content = BlankText
        /\ ures[r].code = 400
        /\ Done(q) /\ ures[q].route = "text" /\ ureq[q].content = TwoParagraphs
        /\ ures[q].body.ingested_chunks = 2
        /\ Cardinality(DOMAIN textColl) = 2

\* C12: a record of file_type text or pdf_text is only ever in the text
\* collection, one of file_type image or pdf_image only ever in the image
\* collection, and no id is in both.
C12_OneCollectionPerModality ==
    /\ \A id \in DOMAIN textColl :
          /\ textColl[id].id = id
          /\ textColl[id].metadata.file_type \in {"text", "pdf_text"}
    /\ \A id \in DOMAIN imageColl :
          /\ imageColl[id].id = id
          /\ imageColl[id].metadata.file_type \in {"image", "pdf_image"}
    /\ (DOMAIN textColl) \cap (DOMAIN imageColl) = {}

\* An image and a PDF have been ingested: records of file_type image,
\* pdf_image and pdf_text are stored.
C12_Witness ==
    /\ \E u \in Records(imageColl) : u.metadata.file_type = "image"
    /\ \E u \in Records(imageColl) : u.metadata.file_type = "pdf_image"
    /\ \E u \in Records(textColl) : u.metadata.file_type = "pdf_text"

\* C20: whatever the interleaving of two uploads, a text upload is answered
\* and ingested from the bytes it carried: it is refused exactly when its own
\* bytes hold no chunk, and the chunks stored under its doc_id are those of
\* its own bytes.
C20_OwnBytesIngested ==
    \A r \in Requests : (Done(r) /\ ures[r].route = "text") =>
        LET own == TextFileChunks(DecodeText(ureq[r].content))
        IN  /\ ures[r].code = own.status
            /\ ures[r].code = 200 =>
                  /\ ures[r].body.ingested_chunks = Len(own.chunks)
                  /\ \A i \in 1..Len(own.chunks) :
                        /\ TextId(ures[r].doc_id, i - 1) \in DOMAIN textColl
                        /\ textColl[TextId(ures[r].doc_id, i - 1)].document = own.chunks[i]

(***************************************************************************)
(* Claims on ingestion with failing surroundings                           *)
(***************************************************************************)
\* page and chunk place of every paragraph chunk of a PDF's pages
PageChunkSlots(pages) ==
    UNION { { <<p, i>> : i \in 1..Len(PdfPageChunks(PageText(pages[p]))) } :
            p \in 1..Len(pages) }

Calls(issued) == { issued[i] : i \in 1..Len(issued) }

\* C13: in a PDF ingestion the text chunks are upserted before the page
\* images and nothing is rolled back: when the image upsert fails, the upload
\* is answered with an error, the text records of that doc_id are in the text
\* collection (and stay there), and no image record of it is in the image
\* collection.
C13_TextStaysWhenImagesFail ==
    /\ [][\A r \in Requests :
            LET file == disk'[StoredPath(ureq[r].filename)]
                doc_id == NewUuid(uuids)
            IN  (/\ Finishes(r)
                 /\ ures'[r].route = "pdf"
                 /\ ures'[r].fault = "image_upsert"
                 /\ IsPdf(file)
                 /\ PdfPages(file) # <<>>) =>
                    LET slots == PageChunkSlots(PdfPages(file))
                        added == NewIds(textColl, textColl')
                    IN  /\ ures'[r].code = 500
                        /\ ures'[r].doc_id = ""
                        /\ ures'[r].issued =
                              (IF slots # {} THEN <<"text">> ELSE <<>>) \o <<"image">>
                        /\ Cardinality(added) = Cardinality(slots)
                        /\ \A id \in added :
                              /\ textColl'[id].metadata.doc_id = doc_id
                              /\ textColl'[id].metadata.file_type = "pdf_text"
                        /\ \A sl \in slots : PdfTextId(doc_id, sl[1], sl[2] - 1) \in added
                        /\ imageColl' = imageColl
                        /\ \A u \in Records(imageColl') : u.metadata.doc_id # doc_id
         ]_vars
    /\ [][\A id \in DOMAIN textColl :
             id \in DOMAIN textColl' /\ textColl'[id] = textColl[id]]_vars

\* The image upsert of a two-page PDF has failed: the upload was answered
\* 500, its two text chunks are stored, no page image is.
C13_Witness ==
    \E r \in Requests :
        /\ Done(r) /\ ures[r].fault = "image_upsert" /\ ures[r].code = 500
        /\ ureq[r].content = PdfBytes
        /\ ures[r].issued = <<"text", "image">>
        /\ Cardinality({id \in DOMAIN textColl :
              textColl[id].metadata.file_type = "pdf_text"}) = 2
        /\ imageColl = <<>>

\* C14: with the collections at work a PDF ingestion fails only when the
\* file cannot be read as a PDF; a pass that yields nothing is left out of
\* the upserts: no text upsert is called for zero chunks, no image upsert for
\* zero page images, and text_chunks and embedded_images are the numbers of
\* records upserted (0 and 1 for a one-page scanned PDF).
C14_EmptyPassOmitted ==
    [][\A r \in Requests :
          (/\ Finishes(r)
           /\ ures'[r].route = "pdf"
           /\ ures'[r].fault # "image_upsert") =>
              LET file == disk'[StoredPath(ureq[r].filename)]
                  addedText == NewIds(textColl, textColl')
                  addedImages == NewIds(imageColl, imageColl')
                  body == ures'[r].body
              IN  /\ (ures'[r].code = 200) <=> IsPdf(file)
                  /\ ~IsPdf(file) =>
                        /\ ures'[r].code = 500
                        /\ textColl' = textColl /\ imageColl' = imageColl
                  /\ IsPdf(file) =>
                        /\ body.text_chunks = Cardinality(addedText)
                        /\ body.text_chunks = Cardinality(PageChunkSlots(PdfPages(file)))
                        /\ body.embedded_images = Cardinality(addedImages)
                        /\ body.embedded_images = Len(PdfPages(file))
                        /\ ("text" \in Calls(ures'[r].issued)) <=> (body.text_chunks > 0)
                        /\ ("image" \in Calls(ures'[r].issued)) <=> (body.embedded_images > 0)
                        /\ body.text_chunks = 0 => textColl' = textColl
                        /\ body.embedded_images = 0 => imageColl' = imageColl
                        /\ file = ScannedPdf =>
                              body.text_chunks = 0 /\ body.embedded_images = 1
      ]_vars

\* A one-page scanned PDF has been ingested with 0 chunks and 1 image, and a
\* PDF without pages with 0 and 0.
C14_Witness ==
    \E r, q \in Requests :
        /\ Done(r) /\ ureq[r].content = ScannedPdf /\ ures[r].code = 200
        /\ ures[r].body.text_chunks = 0 /\ ures[r].body.embedded_images = 1
        /\ ures[r].issued = <<"image">>
        /\ Done(q) /\ ureq[q].content = EmptyPdf /\ ures[q].code = 200
        /\ ures[q].body.text_chunks = 0 /\ ures[q].body.embedded_images = 0
        /\ ures[q].issued = <<>>
        /\ textColl = <<>>

\* C15: an OCR failure does not abort an ingestion: with Tesseract raising,
\* an image upload still returns ok with ingested_images = 1 and
\* ocr_chars = 0, a PDF upload still returns ok with every page embedded,
\* and each record upserted carries its embedding and ocr_text = "".
C15_OcrFailureDegrades ==
    [][\A r \in Requests :
          (Finishes(r) /\ ures'[r].fault = "ocr") =>
              LET file == disk'[StoredPath(ureq[r].filename)]
                  added == NewIds(imageColl, imageColl')
              IN  /\ (ures'[r].route = "image" /\ IsImage(file)) =>
                        /\ ures'[r].code = 200
                        /\ ures'[r].body.ingested_images = 1
                        /\ ures'[r].body.ocr_chars = 0
                        /\ added = {ImageId(ures'[r].doc_id)}
                        /\ \A id \in added :
                              /\ imageColl'[id].metadata.ocr_text = ""
                              /\ imageColl'[id].embedding = EmbedImage(Pixels(file))
                  /\ (ures'[r].route = "pdf" /\ IsPdf(file)) =>
                        /\ ures'[r].code = 200
                        /\ ures'[r].body.embedded_images = Len(PdfPages(file))
                        /\ Cardinality(added) = Len(PdfPages(file))
                        /\ \A id \in added :
                              /\ imageColl'[id].metadata.ocr_text = ""
                              /\ imageColl'[id].metadata.doc_id = ures'[r].doc_id
                              /\ imageColl'[id].embedding
                                    = EmbedImage(Render(PdfPages(file)[imageColl'[id].metadata.page]))
      ]_vars

\* With Tesseract raising, an image and a two-page PDF have been ingested.
C15_Witness ==
    \E r, q \in Requests :
        /\ Done(r) /\ ures[r].fault = "ocr" /\ ures[r].route = "image"
        /\ ures[r].code = 200 /\ ures[r].body.ocr_chars = 0
        /\ Done(q) /\ ures[q].fault = "ocr" /\ ureq[q].content = PdfBytes
        /\ ures[q].code = 200 /\ ures[q].body.embedded_images = 2
        /\ Cardinality(DOMAIN imageColl) = 3
        /\ \A u \in Records(imageColl) : u.metadata.ocr_text = ""

(***************************************************************************)
(* End to end: documents are uploaded, then the collections are queried    *)
(* (demo.py lines 99-134; main.py /upload and /query).                     *)
(*                                                                         *)
(* A query changes nothing in the collections, and its answer is a         *)
(* function of the collections and of the query's distance to each record; *)
(* so one query, placed after any sequence of uploads, gives every answer  *)
(* a later query can be given.  The files uploaded have names of their own.*)
(***************************************************************************)
OneParagraph == <<"C">>

DemoUploads ==
    { [content_type |-> "text/plain", filename |-> [stem |-> "a", ext |-> ".txt"],
       content |-> TwoParagraphs],
      [content_type |-> "text/plain", filename |-> [stem |-> "b", ext |-> ".txt"],
       content |-> OneParagraph],
      [content_type |-> "image/png", filename |-> [stem |-> "a", ext |-> ".PNG"],
       content |-> ImageBytes] }

\* Distances of a query embedding to a stored record, in units of 2^-30
QueryDists == {0, 1, 4}

\* collection.query(query_embeddings=[q], n_results=k): the ids of the k
\* records nearest to q (all of them when the collection holds fewer),
\* nearest first; records at the same distance come in any order.
NearestIds(coll, dist, k) ==
    LET n == Min2(k, Cardinality(DOMAIN coll))
    IN  { ids \in [1..n -> DOMAIN coll] :
            /\ \A i, j \in 1..n : i < j => ids[i] # ids[j] /\ dist[ids[i]] <= dist[ids[j]]
            /\ \A id \in DOMAIN coll :
                  (\A i \in 1..n : ids[i] # id) => \A i \in 1..n : dist[ids[i]] <= dist[id] }

\* A plausible slip: the documents of the text results are not passed on.
TextEntriesNoDocument(coll, ids, dist) ==
    LET text_scores == NormalizeScores([i \in 1..Len(ids) |-> Similarity(dist[ids[i]])])
    IN  [i \in 1..Len(ids) |->
            [id |-> ids[i],
             score |-> IF i <= Len(text_scores) THEN text_scores[i] ELSE FracZero,
             modality |-> "text",
             document |-> <<>>,
             metadata |-> coll[ids[i]].metadata,
             source |-> FormatSourceAttribution(coll[ids[i]].metadata)]]

\* retrieval.py lines 96-99 and 107-116
TextEntries(coll, ids, dist) ==
    LET text_scores == NormalizeScores([i \in 1..Len(ids) |-> Similarity(dist[ids[i]])])
    IN  [i \in 1..Len(ids) |->
            [id |-> ids[i],
             score |-> IF i <= Len(text_scores) THEN text_scores[i] ELSE FracZero,
             modality |-> "text",
             document |-> coll[ids[i]].document,
             metadata |-> coll[ids[i]].metadata,
             source |-> FormatSourceAttribution(coll[ids[i]].metadata)]]

\* retrieval.py lines 101-104 and 119-129
ImageEntries(coll, ids, dist) ==
    LET image_scores == NormalizeScores([i \in 1..Len(ids) |-> Similarity(dist[ids[i]])])
    IN  [i \in 1..Len(ids) |->
            [id |-> ids[i],
             score |-> IF i <= Len(image_scores) THEN image_scores[i] ELSE FracZero,
             modality |-> "image",
             document |-> "None",
             metadata |-> coll[ids[i]].metadata,
             source |-> FormatSourceAttribution(coll[ids[i]].metadata),
             ocr_text |-> coll[ids[i]].metadata.ocr_text]]

InitEndToEnd ==
    /\ upc = [r \in Requests |-> "new"]
    /\ ureq = [r \in Requests |-> NoRequest]
    /\ ures = [r \in Requests |-> NoResponse]
    /\ disk = <<>>
    /\ textColl = <<>>
    /\ imageColl = <<>>
    /\ uuids = 0
    /\ now = 0
    /\ qpc = "idle"
    /\ top_k = 0
    /\ textDist = <<>>
    /\ imageDist = <<>>
    /\ merged = <<>>
    /\ ChunkerAtRest
    /\ NormalizeAtRest
    /\ HandlesAtRest
    /\ AttributionAtRest

\* demo.py lines 112-118: each file of the directory is uploaded once
UploadOpenFile(r) ==
    /\ qpc = "idle"
    /\ \E req \in DemoUploads :
          /\ \A q \in Requests : ureq[q] # req
          /\ Receive(r, req)

UploadFinishFile(r) ==
    /\ qpc = "idle"
    /\ Finish(r, "none")

\* One /query request with a positive top_k, answered from the collections.
QueryCollections ==
    /\ qpc = "idle"
    /\ \E k \in 1..MaxTopK :
       \E td \in [DOMAIN textColl -> QueryDists], idist \in [DOMAIN imageColl -> QueryDists] :
       \E tids \in NearestIds(textColl, td, k), iids \in NearestIds(imageColl, idist, k) :
          /\ top_k' = k
          /\ textDist' = [i \in 1..Len(tids) |-> td[tids[i]]]
          /\ imageDist' = [i \in 1..Len(iids) |-> idist[iids[i]]]
          /\ merged' = MergeTopK(TextEntries(textColl, tids, td),
                                 ImageEntries(imageColl, iids, idist), k)
    /\ qpc' = "done"
    /\ UNCHANGED <<chunkVars, normVars, ingestVars, handleVars, attrVars>>

NextEndToEnd ==
    \/ \E r \in Requests : UploadOpenFile(r) \/ UploadFinishFile(r)
    \/ QueryCollections

SpecEndToEnd == InitEndToEnd /\ [][NextEndToEnd]_vars

\* the two-paragraph file was the first document ingested, into empty
\* collections, and its upload returned ingested_chunks = 2 and a doc_id
FirstIngestedTwoParagraphs(r) ==
    /\ Done(r)
    /\ ureq[r].content = TwoParagraphs
    /\ ures[r].code = 200
    /\ ures[r].body.ingested_chunks = 2
    /\ ures[r].doc_id = NewUuid(0)

HasParagraphResult ==
    \E i \in 1..Len(merged) :
        /\ merged[i].modality = "text"
        /\ merged[i].document \in { <<"A">>, <<"B">> }

\* C16 as stated: after a two-paragraph text file has been ingested into
\* empty collections, every later query with top_k >= 1 returns a text result
\* whose document is one of the two paragraphs.
C16_Original ==
    \A r \in Requests :
        (FirstIngestedTwoParagraphs(r) /\ qpc = "done" /\ top_k >= 1) => HasParagraphResult

\* C16 amended: after a two-paragraph text file has been ingested into empty
\* collections, every later query with top_k >= 1 returns a text result as
\* its first result; as long as the text collection holds the chunks of no
\* other document, the document of that result is one of the two paragraphs.
C16_UploadThenQuery ==
    \A r \in Requests :
        (FirstIngestedTwoParagraphs(r) /\ qpc = "done" /\ top_k >= 1) =>
            /\ Len(merged) >= 1
            /\ merged[1].modality = "text"
            /\ (\A u \in Records(textColl) : u.metadata.doc_id = ures[r].doc_id) =>
                  /\ merged[1].document \in { <<"A">>, <<"B">> }
                  /\ HasParagraphResult

\* The two-paragraph file and an image have been ingested and a query whose
\* nearest record is the image has been answered with top_k = 1.
C16_Witness ==
    \E r \in Requests :
        /\ FirstIngestedTwoParagraphs(r)
        /\ qpc = "done" /\ top_k = 1
        /\ Cardinality(DOMAIN textColl) = 2
        /\ Len(imageDist) = 1 /\ Len(textDist) = 1
        /\ imageDist[1] < textDist[1]
        /\ merged[1].document \in { <<"A">>, <<"B">> }

(***************************************************************************)
(* Lazily constructed handles: EmbeddingModels (embeddings.py lines 17-51) *)
(* and the Chroma client (storage.py lines 20-43).                         *)
(*                                                                         *)
(* get_text_model and get_clip_model test the class attribute and, having  *)
(* seen None, construct and assign; no lock is held between the test and   *)
(* the assignment, so callers on different threads interleave there.       *)
(* get_collections calls get_chroma_client, which constructs a             *)
(* PersistentClient each time it is called.                                *)
(***************************************************************************)
Callers == 1..MaxCallers
Handles == {"text", "clip", "client"}

InitHandles ==
    /\ held = [h \in {"text", "clip"} |-> 0]
    /\ built = [h \in Handles |-> 0]
    /\ hpc = [c \in Callers |-> "idle"]
    /\ got = [c \in Callers |-> [h \in Handles |-> 0]]
    /\ calls = [c \in Callers |-> 0]
    /\ ChunkerAtRest
    /\ NormalizeAtRest
    /\ QueryAtRest
    /\ IngestAtRest
    /\ AttributionAtRest

OthersAtRest == UNCHANGED <<chunkVars, normVars, queryVars, ingestVars, attrVars>>

\* get_text_model / get_clip_model, "if cls._model is None" found false:
\* the instance held is returned.
GetModelHeld(c, h) ==
    /\ hpc[c] = "idle" /\ calls[c] < MaxCalls
    /\ held[h] # 0
    /\ got' = [got EXCEPT ![c][h] = held[h]]
    /\ calls' = [calls EXCEPT ![c] = @ + 1]
    /\ UNCHANGED <<held, built, hpc>>
    /\ OthersAtRest

\* "if cls._model is None" found true: the caller goes on to construct.
GetModelSeesNone(c, h) ==
    /\ hpc[c] = "idle" /\ calls[c] < MaxCalls
    /\ held[h] = 0
    /\ hpc' = [hpc EXCEPT ![c] = IF h = "text" THEN "load_text" ELSE "load_clip"]
    /\ calls' = [calls EXCEPT ![c] = @ + 1]
    /\ UNCHANGED <<held, built, got>>
    /\ OthersAtRest

\* cls._model = SentenceTransformer(...); return cls._model
GetModelLoads(c, h) ==
    /\ hpc[c] = (IF h = "text" THEN "load_text" ELSE "load_clip")
    /\ built' = [built EXCEPT ![h] = @ + 1]
    /\ held' = [held EXCEPT ![h] = built[h] + 1]
    /\ got' = [got EXCEPT ![c][h] = built[h] + 1]
    /\ hpc' = [hpc EXCEPT ![c] = "idle"]
    /\ UNCHANGED calls
    /\ OthersAtRest

\* get_collections() -> get_chroma_client(): chromadb.PersistentClient(...)
GetCollections(c) ==
    /\ hpc[c] = "idle" /\ calls[c] < MaxCalls
    /\ built' = [built EXCEPT !["client"] = @ + 1]
    /\ got' = [got EXCEPT ![c]["client"] = built["client"] + 1]
    /\ calls' = [calls EXCEPT ![c] = @ + 1]
    /\ UNCHANGED <<held, hpc>>
    /\ OthersAtRest

NextHandles ==
    \E c \in Callers :
        \/ \E h \in {"text", "clip"} :
              GetModelHeld(c, h) \/ GetModelSeesNone(c, h) \/ GetModelLoads(c, h)
        \/ GetCollections(c)

SpecHandles == InitHandles /\ [][NextHandles]_vars

\* C6: each handle (text model, CLIP model, vector-store client) is
\* constructed at most once, and every access returns that one instance.
C6_BuiltAtMostOnce ==
    \A h \in Handles :
        /\ built[h] <= 1
        /\ \A c \in Callers : got[c][h] \in {0, 1}

====
